---- MODULE Spec2Model ----
(***************************************************************************)
(* Playback control state machine of the MediaPlayer backend:              *)
(*   backend/app/services/video_service.py  (VideoService, one instance,   *)
(*                                           created in routes/video.py)  *)
(*   backend/app/services/media_player.py   (MediaPlayer and its worker    *)
(*                                           thread _play_video)           *)
(* The routes are "async def" functions that call the service directly,    *)
(* so requests are handled one at a time on the event loop; a request that *)
(* blocks in Thread.join() blocks every other request.  Worker threads run *)
(* concurrently with the request handler.                                  *)
(*                                                                         *)
(* Speeds are modelled in tenths (0.5 -> 5, 1.0 -> 10, 2.0 -> 20, ...).     *)
(* A cv2.VideoCapture is modelled by its decode position                   *)
(* (CAP_PROP_POS_FRAMES); it is open for as long as its player exists.     *)
(***************************************************************************)
EXTENDS Integers, FiniteSets, Sequences, TLC

VARIABLES
    media_player, \* VideoService.media_player: a player id, or None
    players,      \* the MediaPlayer objects, by id
    nplayers,     \* number of MediaPlayer objects constructed (successful loads)
    threads,      \* the worker threads: position in _play_video and player
    nthreads,     \* number of threads started by MediaPlayer.play
    handler,      \* the request handler: idle, or blocked in play_thread.join()
    resp,         \* the last HTTP response
    since         \* history: frames decoded / counted since the last response

vars == <<media_player, players, nplayers, threads, nthreads, handler, resp, since>>

(* ------------------------------ bounds --------------------------------- *)

\* number of objects created in a run: MediaPlayer objects successfully
\* constructed plus worker threads started
MaxObjects == 4
\* number of frames of the video file
MaxFrames == 2

(* ---------------------------- environment ------------------------------ *)

\* paths that os.path.exists() accepts and cv2.VideoCapture can open
VideoFiles == {"a.mp4"}
\* paths that exist but that cv2.VideoCapture cannot open
OtherFiles == {"notes.txt"}
\* paths that do not exist
MissingFiles == {"missing.mp4"}
Paths == VideoFiles \cup OtherFiles \cup MissingFiles

os_path_exists(path) == path \in VideoFiles \cup OtherFiles
isOpened(path) == path \in VideoFiles
\* number of frames cap.read() yields for the file, also CAP_PROP_FRAME_COUNT
FrameCount(path) == IF path \in VideoFiles THEN MaxFrames ELSE 0

\* MediaPlayer.VALID_SPEEDS = [0.5, 1.0, 2.0, 4.0], in tenths
VALID_SPEEDS == {5, 10, 20, 40}
\* self.speed = 1.0 in __init__
DefaultSpeed == 10
\* "speed is None" of PlayRequest
None == 0
\* speeds sent by clients: an allowed value and one that is not allowed
SpeedInputs == {20, 30}

(* ------------------------------ objects -------------------------------- *)

\* slot of a MediaPlayer that does not exist (not yet constructed, or freed)
NoPlayer ==
    [video_path |-> "", cap |-> 0, is_playing |-> FALSE, is_paused |-> FALSE,
     current_frame |-> 0, total_frames |-> 0, speed |-> 0, play_thread |-> None]

\* MediaPlayer.__init__ followed by _load_video on a file that opens
MediaPlayer_init(path) ==
    [video_path |-> path, cap |-> 0, is_playing |-> FALSE, is_paused |-> FALSE,
     current_frame |-> 0, total_frames |-> FrameCount(path),
     speed |-> DefaultSpeed, play_thread |-> None]

\* a thread that was never started, or has terminated (it then no longer
\* references its target)
NoThread == [pc |-> "done", player |-> 0]

\* positions of a worker inside the while loop of _play_video
LoopPcs == {"loop", "paused", "read", "show"}
\* a live thread: started and not yet returned from _play_video
Alive(ths, t) == ths[t].pc # "done"

\* CPython frees an object when nothing references it: a MediaPlayer is
\* referenced by VideoService.media_player and by the bound method that is
\* the target of each of its live threads.  __del__ releases the capture.
Referenced(mp, ths, p) ==
    \/ mp = p
    \/ \E t \in 1..MaxObjects : Alive(ths, t) /\ ths[t].player = p

MediaPlayer_del(mp, ps, ths) ==
    [p \in 1..MaxObjects |-> IF Referenced(mp, ths, p) THEN ps[p] ELSE NoPlayer]

\* HTTP responses: the last response sent.  path and speed are the fields of
\* a success body ("" and 0 when the body has none)
Ok(op, path, speed) ==
    [op |-> op, code |-> 200, detail |-> "", path |-> path, speed |-> speed]
HTTPException(op, code, detail) ==
    [op |-> op, code |-> code, detail |-> detail, path |-> "", speed |-> 0]
NoResp == [op |-> "", code |-> 0, detail |-> "", path |-> "", speed |-> 0]

\* the request handler is idle, or blocked in play_thread.join() inside
\* MediaPlayer.stop on behalf of /stop or /reset
Idle == [op |-> "idle"]
Joining(op) == [op |-> op]

\* frames decoded (reads) and advances of current_frame (incs) by the workers
\* of the current player since the last response, counted while that response
\* is the success of a pause, stop or reset request
NoneSince == [reads |-> 0, incs |-> 0]

Init ==
    /\ media_player = None
    /\ players = [p \in 1..MaxObjects |-> NoPlayer]
    /\ nplayers = 0
    /\ threads = [t \in 1..MaxObjects |-> NoThread]
    /\ nthreads = 0
    /\ handler = Idle
    /\ resp = NoResp
    /\ since = NoneSince

(* ---------------------------- MediaPlayer ------------------------------ *)

\* faulty variant of set_speed_raises: a range check in place of the membership test
set_speed_raises_range(speed) == speed < 5 \/ speed > 40

\* MediaPlayer.set_speed: the new player, or raises ValueError
set_speed_raises(speed) == speed \notin VALID_SPEEDS
MediaPlayer_set_speed(pl, speed) == [pl EXCEPT !.speed = speed]

\* MediaPlayer.play after its optional set_speed: does it start a thread
MediaPlayer_starts_thread(pl) == ~pl.is_playing

\* faulty variant of MediaPlayer_play: starting playback rewinds the video
MediaPlayer_play_rewinds(pl, t) ==
    IF ~pl.is_playing
    THEN [pl EXCEPT !.is_playing = TRUE, !.is_paused = FALSE, !.play_thread = t,
                    !.cap = 0, !.current_frame = 0]
    ELSE [pl EXCEPT !.is_paused = FALSE]

\* faulty variant of MediaPlayer_play: resuming forgets to clear is_paused
MediaPlayer_play_stays_paused(pl, t) ==
    IF ~pl.is_playing
    THEN [pl EXCEPT !.is_playing = TRUE, !.is_paused = FALSE, !.play_thread = t]
    ELSE pl

\* MediaPlayer.play after its optional set_speed; t is the thread it would start
MediaPlayer_play(pl, t) ==
    IF ~pl.is_playing
    THEN [pl EXCEPT !.is_playing = TRUE, !.is_paused = FALSE, !.play_thread = t]
    ELSE [pl EXCEPT !.is_paused = FALSE]

\* MediaPlayer.pause
MediaPlayer_pause(pl) ==
    IF pl.is_playing THEN [pl EXCEPT !.is_paused = TRUE] ELSE pl

\* faulty variant of MediaPlayer_stop: the thread is joined before the flags
\* are cleared
MediaPlayer_stop_joins_first(pl) == pl

\* MediaPlayer.stop up to the join: lines 92-93
MediaPlayer_stop(pl) == [pl EXCEPT !.is_playing = FALSE, !.is_paused = FALSE]

\* faulty variant of join_returns: stop does not wait for the thread
join_returns_at_once(pl, ths) == TRUE

\* "if self.play_thread: self.play_thread.join()" returns
join_returns(pl, ths) ==
    IF pl.play_thread = None THEN TRUE ELSE ~Alive(ths, pl.play_thread)

\* faulty variant of MediaPlayer_reset: the capture is not rewound
MediaPlayer_reset_keeps_position(pl) == [pl EXCEPT !.current_frame = 0]

\* MediaPlayer.reset after its stop(): lines 101-103
MediaPlayer_reset(pl) == [pl EXCEPT !.current_frame = 0, !.cap = 0]

\* MediaPlayer.get_status (timestamp and fps are functions of current_frame
\* and of the file, and are left out)
MediaPlayer_get_status(pl) ==
    [is_playing |-> pl.is_playing, is_paused |-> pl.is_paused,
     current_frame |-> pl.current_frame, total_frames |-> pl.total_frames,
     speed |-> pl.speed, video_path |-> pl.video_path]

(* --------------------------- VideoService ------------------------------ *)

\* a response is sent: the handler returns or raises HTTPException
Respond(r) ==
    /\ resp' = r
    /\ since' = NoneSince

\* a request is refused without touching the service
Refuse(r) ==
    /\ Respond(r)
    /\ UNCHANGED <<media_player, players, nplayers, threads, nthreads, handler>>

\* faulty variant of load_video: the old player is dropped before the new file is tried
load_video_drops_player(path) ==
    /\ handler = Idle
    /\ IF ~os_path_exists(path) \/ ~isOpened(path)
       THEN /\ media_player' = None
            /\ players' = MediaPlayer_del(None, players, threads)
            /\ Respond(HTTPException("load_video", 400, "Could not open video file"))
            /\ UNCHANGED <<nplayers, threads, nthreads, handler>>
       ELSE /\ nplayers + nthreads < MaxObjects
            /\ nplayers' = nplayers + 1
            /\ media_player' = nplayers + 1
            /\ players' = MediaPlayer_del(nplayers + 1,
                              [players EXCEPT ![nplayers + 1] = MediaPlayer_init(path)],
                              threads)
            /\ Respond(Ok("load_video", path, 0))
            /\ UNCHANGED <<threads, nthreads, handler>>

\* faulty variant of load_video: the current player is stopped before the new file is
\* tried
load_video_stops_player(path) ==
    /\ handler = Idle
    /\ IF ~os_path_exists(path) \/ ~isOpened(path)
       THEN /\ players' = IF media_player = None THEN players
                          ELSE [players EXCEPT ![media_player] = MediaPlayer_stop(@)]
            /\ Respond(HTTPException("load_video", 400, "Could not open video file"))
            /\ UNCHANGED <<media_player, nplayers, threads, nthreads, handler>>
       ELSE /\ nplayers + nthreads < MaxObjects
            /\ nplayers' = nplayers + 1
            /\ media_player' = nplayers + 1
            /\ players' = MediaPlayer_del(nplayers + 1,
                              [players EXCEPT ![nplayers + 1] = MediaPlayer_init(path)],
                              threads)
            /\ Respond(Ok("load_video", path, 0))
            /\ UNCHANGED <<threads, nthreads, handler>>

\* faulty variant of load_video: the new player inherits the speed of the old one
load_video_keeps_speed(path) ==
    /\ handler = Idle
    /\ IF ~os_path_exists(path)
       THEN Refuse(HTTPException("load_video", 400, "404: Video file not found"))
       ELSE IF ~isOpened(path)
       THEN Refuse(HTTPException("load_video", 400, "Could not open video file"))
       ELSE /\ nplayers + nthreads < MaxObjects
            /\ nplayers' = nplayers + 1
            /\ media_player' = nplayers + 1
            /\ players' = MediaPlayer_del(nplayers + 1,
                              [players EXCEPT ![nplayers + 1] =
                                  [MediaPlayer_init(path) EXCEPT !.speed =
                                      IF media_player = None THEN DefaultSpeed
                                      ELSE players[media_player].speed]],
                              threads)
            /\ Respond(Ok("load_video", path, 0))
            /\ UNCHANGED <<threads, nthreads, handler>>

\* VideoService.load_video: the 404 is raised inside the try block and is
\* caught by "except Exception", which answers 400 with str(e)
load_video(path) ==
    /\ handler = Idle
    /\ IF ~os_path_exists(path)
       THEN Refuse(HTTPException("load_video", 400, "404: Video file not found"))
       ELSE IF ~isOpened(path)
       THEN Refuse(HTTPException("load_video", 400, "Could not open video file"))
       ELSE /\ nplayers + nthreads < MaxObjects
            /\ nplayers' = nplayers + 1
            /\ media_player' = nplayers + 1
            /\ players' = MediaPlayer_del(nplayers + 1,
                              [players EXCEPT ![nplayers + 1] = MediaPlayer_init(path)],
                              threads)
            /\ Respond(Ok("load_video", path, 0))
            /\ UNCHANGED <<threads, nthreads, handler>>

\* faulty variant of NoVideoLoaded: the wrong status code
NoVideoLoaded_404(op) == Refuse(HTTPException(op, 404, "No video loaded"))

\* "if not self.media_player: raise HTTPException(400, 'No video loaded')"
NoVideoLoaded(op) == Refuse(HTTPException(op, 400, "No video loaded"))

\* the body of MediaPlayer.play once the speed is settled, as a step of the
\* service: pl is the player with its speed already set
StartOrResume(pl) ==
    /\ IF MediaPlayer_starts_thread(pl)
       THEN /\ nplayers + nthreads < MaxObjects
            /\ nthreads' = nthreads + 1
            /\ threads' = [threads EXCEPT ![nthreads + 1] =
                              [pc |-> "loop", player |-> media_player]]
       ELSE UNCHANGED <<threads, nthreads>>
    /\ players' = [players EXCEPT ![media_player] = MediaPlayer_play(pl, nthreads + 1)]

\* faulty variant of play_video: play assigns the speed without set_speed's test
play_video_unchecked_speed(speed) ==
    /\ handler = Idle
    /\ IF media_player = None THEN NoVideoLoaded("play")
       ELSE LET pl == IF speed = None THEN players[media_player]
                      ELSE MediaPlayer_set_speed(players[media_player], speed)
            IN  /\ StartOrResume(pl)
                /\ Respond(Ok("play", "", pl.speed))
                /\ UNCHANGED <<media_player, nplayers, handler>>

\* faulty variant of play_video: the speed is tested after playback was started
play_video_plays_first(speed) ==
    /\ handler = Idle
    /\ IF media_player = None THEN NoVideoLoaded("play")
       ELSE IF speed # None /\ set_speed_raises(speed)
       THEN /\ StartOrResume(players[media_player])
            /\ Respond(HTTPException("play", 400, "Invalid speed"))
            /\ UNCHANGED <<media_player, nplayers, handler>>
       ELSE LET pl == IF speed = None THEN players[media_player]
                      ELSE MediaPlayer_set_speed(players[media_player], speed)
            IN  /\ StartOrResume(pl)
                /\ Respond(Ok("play", "", pl.speed))
                /\ UNCHANGED <<media_player, nplayers, handler>>

\* VideoService.play_video; speed is None or a number
play_video(speed) ==
    /\ handler = Idle
    /\ IF media_player = None THEN NoVideoLoaded("play")
       ELSE IF speed # None /\ set_speed_raises(speed)
       THEN Refuse(HTTPException("play", 400, "Invalid speed"))
       ELSE LET pl == IF speed = None THEN players[media_player]
                      ELSE MediaPlayer_set_speed(players[media_player], speed)
            IN  /\ StartOrResume(pl)
                /\ Respond(Ok("play", "", pl.speed))
                /\ UNCHANGED <<media_player, nplayers, handler>>

\* VideoService.pause_video
pause_video ==
    /\ handler = Idle
    /\ IF media_player = None THEN NoVideoLoaded("pause")
       ELSE /\ players' = [players EXCEPT ![media_player] = MediaPlayer_pause(@)]
            /\ Respond(Ok("pause", "", 0))
            /\ UNCHANGED <<media_player, nplayers, threads, nthreads, handler>>

\* VideoService.stop_video / reset_video up to the join inside MediaPlayer.stop
stop_begin(op) ==
    /\ handler = Idle
    /\ IF media_player = None THEN NoVideoLoaded(op)
       ELSE /\ players' = [players EXCEPT ![media_player] = MediaPlayer_stop(@)]
            /\ handler' = Joining(op)
            /\ UNCHANGED <<media_player, nplayers, threads, nthreads, resp, since>>

stop_video == stop_begin("stop")
reset_video == stop_begin("reset")

\* the join returns: the rest of stop_video / reset_video
stop_join ==
    /\ handler # Idle
    /\ join_returns(players[media_player], threads)
    /\ players' = [players EXCEPT ![media_player] =
                      IF handler.op = "reset" THEN MediaPlayer_reset(@) ELSE @]
    /\ Respond(Ok(handler.op, "", 0))
    /\ handler' = Idle
    /\ UNCHANGED <<media_player, nplayers, threads, nthreads>>

\* VideoService.set_speed
set_speed(speed) ==
    /\ handler = Idle
    /\ IF media_player = None THEN NoVideoLoaded("set_speed")
       ELSE IF set_speed_raises(speed)
       THEN Refuse(HTTPException("set_speed", 400, "Invalid speed"))
       ELSE /\ players' = [players EXCEPT ![media_player] = MediaPlayer_set_speed(@, speed)]
            /\ Respond(Ok("set_speed", "", speed))
            /\ UNCHANGED <<media_player, nplayers, threads, nthreads, handler>>

\* VideoService.get_status
get_status ==
    IF media_player = None THEN [loaded |-> FALSE]
    ELSE [loaded |-> TRUE] @@ MediaPlayer_get_status(players[media_player])

(* ----------------------- worker: _play_video --------------------------- *)

Goto(t, pc) == threads' = [threads EXCEPT ![t].pc = pc]

\* the count after a worker of player p decoded a frame / advanced current_frame
Count(p, what) ==
    IF p = media_player /\ resp.op \in {"pause", "stop", "reset"} /\ resp.code = 200
    THEN [since EXCEPT ![what] = @ + 1] ELSE since

\* line 127: while self.is_playing and self.cap and self.cap.isOpened()
play_video_loop(t) ==
    /\ threads[t].pc = "loop"
    /\ Goto(t, IF players[threads[t].player].is_playing THEN "paused" ELSE "exit")
    /\ UNCHANGED <<media_player, players, nplayers, nthreads, handler, resp, since>>

\* faulty variant of play_video_paused: the paused test is missing
play_video_paused_ignored(t) ==
    /\ threads[t].pc = "paused"
    /\ Goto(t, "read")
    /\ UNCHANGED <<media_player, players, nplayers, nthreads, handler, resp, since>>

\* lines 128-130: if self.is_paused: sleep; continue
play_video_paused(t) ==
    /\ threads[t].pc = "paused"
    /\ Goto(t, IF players[threads[t].player].is_paused THEN "loop" ELSE "read")
    /\ UNCHANGED <<media_player, players, nplayers, nthreads, handler, resp, since>>

\* faulty variant of play_video_read: the frame is counted before ret is tested
play_video_read_counts_first(t) ==
    /\ threads[t].pc = "read"
    /\ LET p == threads[t].player IN
       IF players[p].cap < FrameCount(players[p].video_path)
       THEN /\ players' = [players EXCEPT ![p].cap = @ + 1]
            /\ Goto(t, "show")
            /\ since' = Count(p, "reads")
       ELSE /\ players' = [players EXCEPT ![p].current_frame = @ + 1]
            /\ Goto(t, "exit")
            /\ UNCHANGED since
    /\ UNCHANGED <<media_player, nplayers, nthreads, handler, resp>>

\* lines 132-135: ret, frame = self.cap.read(); break at the end of the video
play_video_read(t) ==
    /\ threads[t].pc = "read"
    /\ LET p == threads[t].player IN
       IF players[p].cap < FrameCount(players[p].video_path)
       THEN /\ players' = [players EXCEPT ![p].cap = @ + 1]
            /\ Goto(t, "show")
            /\ since' = Count(p, "reads")
       ELSE /\ Goto(t, "exit")
            /\ UNCHANGED <<players, since>>
    /\ UNCHANGED <<media_player, nplayers, nthreads, handler, resp>>

\* lines 137-152: overlays, imshow, sleep(frame_delay), current_frame += 1,
\* then waitKey: quit is TRUE when 'q' or ESC was pressed
play_video_show(t, quit) ==
    /\ threads[t].pc = "show"
    /\ players' = [players EXCEPT ![threads[t].player].current_frame = @ + 1]
    /\ Goto(t, IF quit THEN "exit" ELSE "loop")
    /\ since' = Count(threads[t].player, "incs")
    /\ UNCHANGED <<media_player, nplayers, nthreads, handler, resp>>

\* faulty variant of play_video_exit: the worker leaves without clearing is_playing
play_video_exit_keeps_playing(t) ==
    /\ threads[t].pc = "exit"
    /\ Goto(t, "destroy")
    /\ UNCHANGED <<media_player, players, nplayers, nthreads, handler, resp, since>>

\* line 154: self.is_playing = False
play_video_exit(t) ==
    /\ threads[t].pc = "exit"
    /\ players' = [players EXCEPT ![threads[t].player].is_playing = FALSE]
    /\ Goto(t, "destroy")
    /\ UNCHANGED <<media_player, nplayers, nthreads, handler, resp, since>>

\* line 155 and the return of _play_video: the thread terminates and drops
\* its reference to the player
play_video_return(t) ==
    /\ threads[t].pc = "destroy"
    /\ threads' = [threads EXCEPT ![t] = NoThread]
    /\ players' = MediaPlayer_del(media_player, players, threads')
    /\ UNCHANGED <<media_player, nplayers, nthreads, handler, resp, since>>

Worker(t) ==
    \/ play_video_loop(t)
    \/ play_video_paused(t)
    \/ play_video_read(t)
    \/ \E quit \in BOOLEAN : play_video_show(t, quit)
    \/ play_video_exit(t)
    \/ play_video_return(t)

Next ==
    \/ \E path \in Paths : load_video(path)
    \/ \E speed \in {None} \cup SpeedInputs : play_video(speed)
    \/ pause_video
    \/ stop_video
    \/ reset_video
    \/ stop_join
    \/ \E speed \in SpeedInputs : set_speed(speed)
    \/ \E t \in 1..MaxObjects : Worker(t)

Spec == Init /\ [][Next]_vars

\* Scheduling: every live thread keeps being scheduled (the interpreter
\* switches between runnable threads, and every sleep in _play_video is
\* finite), and so is the request handler once its join can return.
Fairness ==
    /\ \A t \in 1..MaxObjects : WF_vars(Worker(t))
    /\ WF_vars(stop_join)

FairSpec == Init /\ [][Next]_vars /\ Fairness

(* ============================== claims ================================= *)

\* a video has been loaded: VideoService.media_player is a MediaPlayer
Loaded == media_player # None
\* the allowed speeds as the interface states them: 0.5, 1.0, 2.0, 4.0
AllowedSpeeds == {5, 10, 20, 40}
\* a step that is one of the control requests
ControlRequest ==
    \/ \E speed \in {None} \cup SpeedInputs : play_video(speed)
    \/ pause_video
    \/ stop_video
    \/ reset_video
    \/ \E speed \in SpeedInputs : set_speed(speed)
\* the live threads of player p that are inside the while loop of _play_video
LoopWorkers(p) ==
    {t \in 1..MaxObjects : threads[t].player = p /\ threads[t].pc \in LoopPcs}

\* C1: load_video with a path that does not exist on disk answers HTTP 404,
\* in every state of the service.
C1_MissingPathAnswers404 ==
    [][\A path \in MissingFiles : load_video(path) => resp'.code = 404]_vars

\* C2: on a loaded player, set_speed with a value outside the allowed set
\* answers 400 and leaves speed, is_playing, is_paused and current_frame as
\* they were; with a value inside the set it answers 200 and speed becomes
\* that value.
C2_SetSpeed ==
    [][\A speed \in SpeedInputs :
         (Loaded /\ set_speed(speed)) =>
            LET before == players[media_player]
                after == players'[media_player]
            IN  IF speed \in AllowedSpeeds
                THEN resp'.code = 200 /\ after.speed = speed
                ELSE /\ resp'.code = 400
                     /\ after.speed = before.speed
                     /\ after.is_playing = before.is_playing
                     /\ after.is_paused = before.is_paused
                     /\ after.current_frame = before.current_frame]_vars

\* C2 witness: a refused set_speed on a player whose speed had been changed
\* from the default, which still has that speed
C2_Witness ==
    /\ Loaded
    /\ resp.op = "set_speed" /\ resp.code = 400
    /\ players[media_player].speed = 20

\* C3: while no load_video has succeeded, play, pause, stop, reset and
\* set_speed (with any argument) answer 400 "No video loaded", start no
\* worker thread and leave the service without a player.
C3_ControlBeforeLoad ==
    [][(nplayers = 0 /\ ControlRequest) =>
          /\ resp'.code = 400 /\ resp'.detail = "No video loaded"
          /\ threads' = threads /\ nthreads' = nthreads
          /\ media_player' = None /\ players' = players
          /\ handler' = Idle]_vars

\* C3 witness: a control request was refused before any load
C3_Witness ==
    /\ nplayers = 0
    /\ resp.op \in {"play", "pause", "stop", "reset", "set_speed"}
    /\ resp.code = 400

\* C4: get_status answers exactly {loaded: false} if and only if no
\* load_video has succeeded so far (nplayers counts the successful loads and
\* never decreases).
C4_StatusLoaded ==
    /\ (get_status = [loaded |-> FALSE]) <=> (nplayers = 0)
    /\ get_status.loaded <=> (nplayers > 0)

\* C4 witness: a load failed after a load had succeeded and a stop or reset
\* had run, and the status still says loaded
C4_Witness ==
    /\ nplayers > 0
    /\ resp.op = "load_video" /\ resp.code = 400
    /\ get_status.loaded
    /\ ~get_status.is_playing /\ nthreads > 0

\* C5: at most one worker thread is inside the frame-decode loop of
\* _play_video at any moment.
C5_SingleWorker ==
    Cardinality({t \in 1..MaxObjects : threads[t].pc \in LoopPcs}) <= 1

\* C6: play on a loaded player with no speed or an allowed speed answers 200
\* with the player's current speed; if is_playing was false it sets
\* is_playing, clears is_paused and starts exactly one new worker; if
\* is_playing was true it starts no worker and only clears is_paused (so a
\* worker waiting in the paused branch goes on to decode).
C6_Play ==
    [][\A speed \in {None} \cup SpeedInputs :
         (Loaded /\ (speed = None \/ speed \in AllowedSpeeds) /\ play_video(speed)) =>
            LET before == players[media_player]
                after == players'[media_player]
                newspeed == IF speed = None THEN before.speed ELSE speed
            IN  /\ media_player' = media_player
                /\ resp'.code = 200 /\ resp'.speed = after.speed
                /\ after.speed = newspeed
                /\ IF ~before.is_playing
                   THEN /\ after.is_playing /\ ~after.is_paused
                        /\ nthreads' = nthreads + 1
                        /\ after.play_thread = nthreads'
                        /\ threads'[nthreads'] = [pc |-> "loop", player |-> media_player]
                        /\ \A t \in 1..MaxObjects : t # nthreads' => threads'[t] = threads[t]
                   ELSE /\ threads' = threads /\ nthreads' = nthreads
                        /\ after = [before EXCEPT !.is_paused = FALSE, !.speed = newspeed]]_vars

\* C6 witness: play with a new speed was accepted; the player's one worker has
\* decoded nothing yet and is past the paused test, about to decode
C6_Witness ==
    /\ Loaded
    /\ resp.op = "play" /\ resp.code = 200 /\ resp.speed = 20
    /\ nthreads = 1
    /\ players[media_player].current_frame = 0
    /\ threads[1].pc = "read"
    /\ players[media_player].is_playing /\ ~players[media_player].is_paused

\* C7: a load_video that fails (missing path, or a file that cannot be opened,
\* which answers 400) leaves the previously loaded player in place and
\* unchanged: get_status answers after the call what it answered before it,
\* and no thread is affected.
C7_FailedLoad ==
    [][\A path \in Paths :
         load_video(path) =>
            /\ path \notin VideoFiles => resp'.code # 200
            /\ path \in OtherFiles => resp'.code = 400
            /\ resp'.code # 200 =>
                  /\ get_status' = get_status
                  /\ media_player' = media_player /\ players' = players
                  /\ threads' = threads /\ nthreads' = nthreads]_vars

\* C7 witness: a load was refused while the loaded player was playing, past
\* its first frame and at a speed that is not the default one
C7_Witness ==
    /\ Loaded
    /\ resp.op = "load_video" /\ resp.code = 400
    /\ players[media_player].is_playing
    /\ players[media_player].speed = 20
    /\ players[media_player].current_frame = 1
    /\ LoopWorkers(media_player) # {}

\* no thread of player p can still change the player: none is inside the
\* loop or about to execute line 154
Quiet(p) ==
    \A t \in 1..MaxObjects :
        threads[t].player = p => threads[t].pc \notin LoopPcs \cup {"exit"}
\* the player's worker thread (play_thread) has terminated
WorkerTerminated(p) ==
    players[p].play_thread = None \/ threads[players[p].play_thread].pc = "done"
\* the current player is stopped
Stopped ==
    /\ Loaded
    /\ ~players[media_player].is_playing /\ ~players[media_player].is_paused
    /\ WorkerTerminated(media_player) /\ Quiet(media_player)
\* a step that is a play that is accepted, a reset, or a load that succeeds
PlayResetOrLoad ==
    \/ \E speed \in {None} \cup SpeedInputs : play_video(speed) /\ resp'.code = 200
    \/ reset_video
    \/ stop_join /\ handler.op = "reset"
    \/ \E path \in Paths : load_video(path) /\ resp'.code = 200

\* C8: when stop returns on a loaded player, the player's worker thread has
\* terminated, is_playing and is_paused are false, and from then on
\* current_frame (and the decode position) does not change until the next
\* play, reset or load.
C8_Stop ==
    /\ []((resp.op = "stop" /\ resp.code = 200) =>
             Stopped /\ since.reads = 0 /\ since.incs = 0)
    /\ [][(Stopped /\ ~PlayResetOrLoad) =>
             /\ Stopped'
             /\ media_player' = media_player
             /\ players'[media_player].current_frame = players[media_player].current_frame
             /\ players'[media_player].cap = players[media_player].cap]_vars

\* C8 witness: stop has returned on a player that was stopped in the middle
\* of the video
C8_Witness ==
    /\ resp.op = "stop" /\ resp.code = 200
    /\ Loaded
    /\ players[media_player].play_thread # None
    /\ players[media_player].current_frame = 1

\* the current player is at the beginning and stopped
AtStart ==
    /\ Stopped
    /\ players[media_player].current_frame = 0
    /\ players[media_player].cap = 0

\* C9: when reset returns on a loaded player, current_frame = 0, the decode
\* position is 0, is_playing and is_paused are false and no worker is
\* running; current_frame stays 0 until the next play; speed is as before
\* the reset.
C9_Reset ==
    /\ []((resp.op = "reset" /\ resp.code = 200) =>
             AtStart /\ since.reads = 0 /\ since.incs = 0)
    /\ [][(AtStart /\ ~PlayResetOrLoad) => AtStart' /\ media_player' = media_player]_vars
    /\ [][(Loaded /\ (reset_video \/ (stop_join /\ handler.op = "reset"))) =>
             /\ media_player' = media_player
             /\ players'[media_player].speed = players[media_player].speed]_vars

\* C9 witness: reset has returned on a player that had started a worker and
\* whose speed had been changed
C9_Witness ==
    /\ resp.op = "reset" /\ resp.code = 200
    /\ Loaded
    /\ players[media_player].play_thread # None
    /\ players[media_player].speed = 20
    /\ players[media_player].current_frame = 0

\* the last response is the success of a pause that found the current player
\* playing, and no request has been answered since
PauseReturned ==
    /\ Loaded
    /\ resp.op = "pause" /\ resp.code = 200
    /\ players[media_player].is_paused

\* C10 as stated: once pause has returned on a playing player the worker
\* decodes no further frame and current_frame does not change until the next
\* play, whatever the worker was doing when pause was called.
C10_PauseImmediate ==
    PauseReturned => since.reads = 0 /\ since.incs = 0

\* C10 as amended: after pause has returned on a playing player the worker
\* finishes the loop iteration it is in, so it decodes at most one further
\* frame and advances current_frame at most once; as long as the player stays
\* paused no worker gets past the paused test again; pause on a player that is
\* not playing changes no state (is_paused keeps the value it had).
C10_PauseAfterIteration ==
    /\ [](PauseReturned => since.reads <= 1 /\ since.incs <= 1)
    /\ [][(Loaded /\ players[media_player].is_paused /\ media_player' = media_player
             /\ players'[media_player].is_paused) =>
             \A t \in 1..MaxObjects :
                 (threads'[t].player = media_player /\ threads'[t].pc = "read")
                     => threads[t] = threads'[t]]_vars
    /\ [][(Loaded /\ ~players[media_player].is_playing /\ pause_video) =>
             /\ media_player' = media_player
             /\ players' = players /\ threads' = threads
             /\ nthreads' = nthreads /\ handler' = handler]_vars

\* C10 witness: pause returned while the worker was about to decode; the
\* worker decoded that frame and advanced current_frame
C10_Witness ==
    /\ PauseReturned
    /\ since.reads = 1 /\ since.incs = 1

\* the MediaPlayer objects that exist
Existing == {p \in 1..MaxObjects : players[p] # NoPlayer}

\* C11: the speed of every player is one of 0.5, 1.0, 2.0, 4.0; a new player
\* has speed 1.0, and only set_speed and play change the speed of a player.
C11_SpeedAllowed ==
    /\ [](\A p \in Existing : players[p].speed \in AllowedSpeeds)
    /\ [][\A p \in 1..MaxObjects :
            /\ (players[p] = NoPlayer /\ players'[p] # NoPlayer) => players'[p].speed = 10
            /\ (players[p] # NoPlayer /\ players'[p] # NoPlayer
                  /\ players'[p].speed # players[p].speed) =>
                  \/ \E speed \in SpeedInputs : set_speed(speed)
                  \/ \E speed \in SpeedInputs : play_video(speed)]_vars

\* C11 witness: the speed of the loaded player is allowed and not the default
\* one, after a request with a speed that is not allowed was refused
C11_Witness ==
    /\ Loaded
    /\ players[media_player].speed = 20
    /\ resp.code = 400 /\ resp.detail = "Invalid speed"

\* C12: play with a speed outside the allowed set on a loaded player answers
\* 400 and has no effect: speed, is_playing, is_paused are as before and no
\* worker thread is started.
C12_PlayBadSpeed ==
    [][\A speed \in SpeedInputs :
         (Loaded /\ speed \notin AllowedSpeeds /\ play_video(speed)) =>
            /\ resp'.code = 400
            /\ media_player' = media_player
            /\ players' = players
            /\ threads' = threads /\ nthreads' = nthreads]_vars

\* C12 witness: a play with a speed that is not allowed was refused on a
\* player that is paused, and the player is still paused
C12_Witness ==
    /\ Loaded
    /\ resp.op = "play" /\ resp.code = 400
    /\ players[media_player].is_paused
    /\ players[media_player].is_playing
    /\ LoopWorkers(media_player) # {}

\* C13: a stop or reset request on a loaded player always completes: once the
\* flags are cleared the worker leaves its loop and terminates, whatever it
\* was doing, so the join returns and the request is answered with the
\* player stopped.
C13_StopCompletes ==
    (handler # Idle) ~>
        (handler = Idle /\ resp.op \in {"stop", "reset"} /\ resp.code = 200 /\ Stopped)

\* C13 witness: a stop or reset is waiting in the join while the worker, which
\* was paused when the request came, is in the paused branch
C13_Witness ==
    /\ handler # Idle
    /\ resp.op = "pause" /\ resp.code = 200
    /\ \E t \in LoopWorkers(media_player) :
           players[media_player].play_thread = t /\ threads[t].pc = "paused"

\* C14: for the loaded player, is_paused implies is_playing: get_status never
\* reports a player that is paused but not playing.
C14_PausedImpliesPlaying ==
    Loaded => (players[media_player].is_paused => players[media_player].is_playing)

\* the threads of player p that have decoded a frame and not yet counted it
MidIteration(p) ==
    {t \in 1..MaxObjects : threads[t].player = p /\ threads[t].pc = "show"}

\* C15: for every player, 0 <= current_frame <= total_frames; while no worker
\* is in the middle of a loop iteration current_frame equals the number of
\* frames decoded since the last reset or load (the decode position), and a
\* worker in the middle of an iteration has decoded exactly one frame more;
\* current_frame of a player decreases only through reset.
C15_FrameCount ==
    /\ [](\A p \in Existing :
             /\ 0 <= players[p].current_frame
             /\ players[p].current_frame <= players[p].total_frames
             /\ players[p].total_frames = FrameCount(players[p].video_path)
             /\ MidIteration(p) = {} => players[p].current_frame = players[p].cap
             /\ MidIteration(p) # {} => players[p].current_frame + 1 = players[p].cap)
    /\ [][\A p \in 1..MaxObjects :
            (players[p] # NoPlayer /\ players'[p] # NoPlayer
               /\ players'[p].current_frame < players[p].current_frame) =>
               (stop_join /\ handler.op = "reset" /\ p = media_player)]_vars

\* C15 witness: a worker of the loaded player is between decoding its second
\* frame and counting it
C15_Witness ==
    /\ Loaded
    /\ MidIteration(media_player) # {}
    /\ players[media_player].current_frame = 1
    /\ players[media_player].cap = 2

\* the last request answered was an accepted play and no stop or reset is
\* in progress: no pause, stop, reset or load request has followed the play
PlayReturned ==
    /\ Loaded
    /\ handler = Idle
    /\ resp.op = "play" /\ resp.code = 200
\* playback of player p has ended: is_playing is false and no worker of p is
\* left
Ended(p) ==
    /\ ~players[p].is_playing
    /\ WorkerTerminated(p) /\ Quiet(p)
\* a pause, stop, reset or load request followed
Interrupted(p) ==
    \/ media_player # p
    \/ handler # Idle
    \/ resp.op \in {"pause", "stop", "reset", "load_video"}

\* C16 as stated: whenever playback has ended after an accepted play that no
\* pause, stop, reset or load request followed, current_frame equals the
\* number of frames in the video.
C16_EndsAtLastFrame ==
    (PlayReturned /\ Ended(media_player)) =>
        players[media_player].current_frame = FrameCount(players[media_player].video_path)

\* C16 amended: after an accepted play that no pause, stop, reset or load
\* request follows, under fair scheduling of the worker playback eventually
\* ends by itself with is_playing=false and the worker terminated; the worker
\* leaves its loop only at the end of the video, with current_frame equal to
\* the number of frames, or after a frame at which 'q' or ESC was pressed
\* (then current_frame may be smaller), or because is_playing was cleared.
C16_PlaybackEnds ==
    /\ \A p \in 1..MaxObjects :
          (PlayReturned /\ media_player = p) ~> (Ended(p) \/ Interrupted(p))
    /\ [][\A t \in 1..MaxObjects :
            (threads[t].pc \in LoopPcs /\ threads'[t].pc = "exit") =>
               LET p == threads[t].player IN
               \/ play_video_show(t, TRUE)
               \/ threads[t].pc = "loop" /\ ~players[p].is_playing
               \/ /\ threads[t].pc = "read"
                  /\ players'[p] = players[p]
                  /\ players[p].cap = FrameCount(players[p].video_path)
                  /\ players[p].current_frame = FrameCount(players[p].video_path)]_vars

\* C16 witness: playback ended at the end of the video after an accepted
\* play that nothing followed
C16_Witness ==
    /\ PlayReturned /\ Ended(media_player)
    /\ players[media_player].current_frame = FrameCount(players[media_player].video_path)

\* player p is at the end of its video: every frame was decoded and counted
AtEnd(p) ==
    /\ players[p] # NoPlayer
    /\ players[p].cap = FrameCount(players[p].video_path)
    /\ players[p].current_frame = FrameCount(players[p].video_path)

\* C17: once the loaded player is at the end of the video, a play request
\* does not rewind: an accepted play on the ended player answers 200 and
\* starts a worker without moving the position; every step that is not the
\* completion of a reset or a successful load leaves the player at the end
\* position (so that worker decodes no frame); and under fair scheduling the
\* worker exits and is_playing returns to false unless a request intervenes.
C17_NoRewind ==
    /\ [][\A speed \in {None} \cup SpeedInputs :
            (Loaded /\ AtEnd(media_player) /\ ~players[media_player].is_playing
               /\ play_video(speed) /\ resp'.code = 200) =>
               /\ nthreads' = nthreads + 1
               /\ threads'[nthreads'] = [pc |-> "loop", player |-> media_player]
               /\ players'[media_player].is_playing
               /\ players'[media_player].play_thread = nthreads']_vars
    /\ [][(Loaded /\ AtEnd(media_player)
             /\ ~(stop_join /\ handler.op = "reset")
             /\ ~(\E path \in Paths : load_video(path) /\ resp'.code = 200)) =>
             /\ media_player' = media_player
             /\ players'[media_player].cap = players[media_player].cap
             /\ players'[media_player].current_frame = players[media_player].current_frame]_vars
    /\ \A p \in 1..MaxObjects :
          (PlayReturned /\ media_player = p /\ AtEnd(p)) ~>
             ((Ended(p) /\ AtEnd(p)) \/ Interrupted(p))

\* C17 witness: the first worker has ended playback and is about to
\* terminate, and the worker started by a later play is at its loop test
\* with the player at the end of the video
C17_Witness ==
    /\ PlayReturned /\ AtEnd(media_player)
    /\ players[media_player].is_playing
    /\ players[media_player].play_thread = 2
    /\ threads[1] = [pc |-> "destroy", player |-> media_player]
    /\ threads[2] = [pc |-> "loop", player |-> media_player]

====
